---------------------------- MODULE Spec2Model ----------------------------
(***************************************************************************)
(* A model of bughub.py: source definitions are parsed into issue sources, *)
(* the sources' lazy record sequences are chained, and every record is     *)
(* written as a CSV row while the pages are being fetched.                 *)
(*                                                                         *)
(* Python strings are sequences of tokens.  A token is either one of the   *)
(* separator characters the program looks at (":", "=", ";", ",", " ",     *)
(* "<", ">") or a run of ordinary characters ("github", "acme", ...).      *)
(* Python values of different types are records with different fields, so  *)
(* a string is never compared with a list.                                 *)
(***************************************************************************)
EXTENDS Integers, Sequences, FiniteSets, TLC

VARIABLES
    argv,       \* args.sources: the source definitions of the command line
    sources,    \* main's `sources`: the parsed source instances
    pc,         \* main's position: "parse", "header", "chain", "done", "error"
    err,        \* the exception that ended the run, or NoError
    cur,        \* index of the source generator itertools.chain is draining
    gen,        \* the state of that source's get_issues generator
    output,     \* the rows written to the csv writer so far
    requests,   \* the urlopen calls so far: [src, url]
    served,     \* per source, the raw issues the server has sent so far
    yielded,    \* per source, the raw issues get_issues has yielded so far
    events,     \* the order of header, request and row events
    raw,        \* a raw issue or bug handed to get_all's record expression
    rec         \* the record (or the exception) made from `raw`

vars == <<argv, sources, pc, err, cur, gen, output, requests, served,
          yielded, events, raw, rec>>

(***************************************************************************)
(* Bounds of the model.                                                    *)
(***************************************************************************)
MaxPages == 2     \* pages the server sends to one github source
MaxIssues == 2    \* issues (bugs) in one response
MaxLabels == 3    \* labels of one raw github issue

(***************************************************************************)
(* Python's string methods, on token sequences.                            *)
(***************************************************************************)
RECURSIVE Split(_, _)
\* s.split(sep): the pieces between the occurrences of sep; never empty.
Split(s, sep) ==
    IF \A i \in 1..Len(s) : s[i] # sep
    THEN <<s>>
    ELSE LET i == CHOOSE j \in 1..Len(s) :
                     s[j] = sep /\ \A k \in 1..(j-1) : s[k] # sep
         IN  <<SubSeq(s, 1, i-1)>> \o Split(SubSeq(s, i+1, Len(s)), sep)

RECURSIVE StripChars(_, _)
\* s.strip(chars): drop leading and trailing tokens that are in chars.
StripChars(s, chars) ==
    IF s = <<>> THEN s
    ELSE IF s[1] \in chars THEN StripChars(Tail(s), chars)
    ELSE IF s[Len(s)] \in chars THEN StripChars(SubSeq(s, 1, Len(s)-1), chars)
    ELSE s

\* s.strip(): whitespace
Strip(s) == StripChars(s, {" "})

\* sep in s
Contains(s, sep) == \E i \in 1..Len(s) : s[i] = sep

\* reversed(list)
Reversed(l) == [i \in 1..Len(l) |-> l[Len(l) + 1 - i]]

RECURSIVE Join(_, _)
\* sep.join(list of strings)
Join(l, sep) ==
    IF l = <<>> THEN <<>>
    ELSE IF Len(l) = 1 THEN l[1]
    ELSE l[1] \o <<sep>> \o Join(Tail(l), sep)

(***************************************************************************)
(* Python values.                                                          *)
(***************************************************************************)
PyStr(s) == [t |-> "str", s |-> s]
PyList(l) == [t |-> "list", l |-> l]


(***************************************************************************)
(* The issue source classes and their constructors.                        *)
(***************************************************************************)
\* SOURCE_TYPES: the registry of source classes, keyed by type name.
SOURCE_TYPES == {<<"github">>, <<"bugzilla">>}

\* The named parameters of a class's __init__ after self.
InitParams(cls) == IF cls = <<"github">> THEN <<"user", "repo">> ELSE <<>>

\* The keys of kwargs that are not parameter names go to **filters.
FilterKeys(cls, kwargs) ==
    {k \in DOMAIN kwargs :
        k # <<"self">> /\ \A i \in 1..Len(InitParams(cls)) : k # <<InitParams(cls)[i]>>}

\* source_class(*args, **kwargs): Python binds the positional arguments to
\* the parameters in order, then the keywords by name; a keyword naming a
\* parameter that is already bound, too many positionals, or a parameter
\* left unbound is a TypeError.  A parameter bound by keyword holds the
\* value list of that key.
Construct(cls, args, kwargs) ==
    LET params == InitParams(cls)
        n == Len(params)
        bound(i) == IF i <= Len(args) THEN PyStr(args[i])
                    ELSE PyList(kwargs[<<params[i]>>])
        filters == [k \in FilterKeys(cls, kwargs) |-> kwargs[k]]
    IN  IF Len(args) > n THEN [ok |-> FALSE, exc |-> "TypeError"]
        ELSE IF <<"self">> \in DOMAIN kwargs THEN [ok |-> FALSE, exc |-> "TypeError"]
        ELSE IF \E i \in 1..Len(args) : <<params[i]>> \in DOMAIN kwargs
             THEN [ok |-> FALSE, exc |-> "TypeError"]
        ELSE IF \E i \in (Len(args)+1)..n : <<params[i]>> \notin DOMAIN kwargs
             THEN [ok |-> FALSE, exc |-> "TypeError"]
        ELSE IF cls = <<"github">>
             THEN [ok |-> TRUE,
                   val |-> [cls |-> "github", user |-> bound(1), repo |-> bound(2),
                            filters |-> filters]]
             ELSE [ok |-> TRUE, val |-> [cls |-> "bugzilla", filters |-> filters]]

\* kwargs[key].append(val) on a defaultdict(list)
AppendValue(kwargs, key, val) ==
    IF key \in DOMAIN kwargs
    THEN [kwargs EXCEPT ![key] = Append(@, val)]
    ELSE (key :> <<val>>) @@ kwargs

RECURSIVE ParseBits(_, _, _)
\* The loop of parse_source over the bits after the type: a bit holding "="
\* is unpacked into key and val (a ValueError unless the split gives exactly
\* two pieces), any other bit is a positional argument.
ParseBits(bits, args, kwargs) ==
    IF bits = <<>> THEN [ok |-> TRUE, args |-> args, kwargs |-> kwargs]
    ELSE LET bit == Head(bits)
             kv == Split(bit, "=")
         IN  IF Contains(bit, "=")
             THEN IF Len(kv) # 2 THEN [ok |-> FALSE, exc |-> "ValueError"]
                  ELSE ParseBits(Tail(bits), args, AppendValue(kwargs, kv[1], kv[2]))
             ELSE ParseBits(Tail(bits), Append(args, bit), kwargs)

\* parse_source(definition): the source instance, or the exception raised.
parse_source(definition) ==
    LET bits == Split(definition, ":")
        parsed == ParseBits(Tail(bits), <<>>, <<>>)
    IN  IF Head(bits) \notin SOURCE_TYPES THEN [ok |-> FALSE, exc |-> "KeyError"]
        ELSE IF ~parsed.ok THEN parsed
        ELSE Construct(Head(bits), parsed.args, parsed.kwargs)

(***************************************************************************)
(* Query strings and request URLs.                                         *)
(***************************************************************************)
PyInt(n) == [t |-> "int", n |-> n]

\* filters.setdefault("per_page", 100)
DefaultPerPage == 100

\* str(v) of the only integer that reaches urlencode
StrOfInt(n) == IF n = DefaultPerPage THEN <<"100">> ELSE <<"int">>

\* urllib.quote_plus of one token: a run of ordinary characters is kept, a
\* space becomes "+", the other separators are percent-encoded.
QuoteToken(c) ==
    CASE c = " " -> "+"
      [] c = "," -> "%2C"
      [] c = ";" -> "%3B"
      [] c = "<" -> "%3C"
      [] c = ">" -> "%3E"
      [] c = ":" -> "%3A"
      [] c = "=" -> "%3D"
      [] OTHER -> c

quote_plus(s) == [i \in 1..Len(s) |-> QuoteToken(s[i])]

\* The orders in which a dict with these keys may be iterated.
KeyOrders(keys) ==
    {o \in [1..Cardinality(keys) -> keys] :
        \A i, j \in 1..Cardinality(keys) : i # j => o[i] # o[j]}

\* The "k=v" pieces urlencode(..., doseq=True) makes for one key: one per
\* element of a list value, in list order; one for a value without len().
PairsOfKey(k, v) ==
    IF v.t = "list"
    THEN [i \in 1..Len(v.l) |-> quote_plus(k) \o <<"=">> \o quote_plus(v.l[i])]
    ELSE <<quote_plus(k) \o <<"=">> \o quote_plus(StrOfInt(v.n))>>

RECURSIVE PairsInOrder(_, _)
PairsInOrder(query, order) ==
    IF order = <<>> THEN <<>>
    ELSE PairsOfKey(Head(order), query[Head(order)]) \o PairsInOrder(query, Tail(order))

\* urlencode(query, doseq=True), the dict being iterated in `order`.
urlencode(query, order) == Join(PairsInOrder(query, order), "&")

GithubApiBase == "https://api.github.com/"
BugzillaApiBase == "https://api-dev.bugzilla.mozilla.org/latest/bug"

\* The filters of a parsed source as urlencode sees them: lists of strings.
AsLists(filters) == [k \in DOMAIN filters |-> PyList(filters[k])]

\* Github.get_issues, lines 77-78: a copy of the filters with per_page
\* defaulted to the integer 100.
GithubQuery(source) ==
    IF <<"per_page">> \in DOMAIN source.filters
    THEN AsLists(source.filters)
    ELSE (<<"per_page">> :> PyInt(DefaultPerPage)) @@ AsLists(source.filters)

\* self.filters after lines 77-78: the copy was changed, not the original.
GithubSelfFilters(source) == source.filters

\* "/".join(["repos", user, repo, "issues"]) needs strings.
GithubPathOk(source) == source.user.t = "str" /\ source.repo.t = "str"

\* The first URL of Github.get_issues.  urljoin appends the relative path to
\* the API base.
GithubUrl(source, order) ==
    <<GithubApiBase>>
        \o Join(<<<<"repos">>, source.user.s, source.repo.s, <<"issues">>>>, "/")
        \o <<"?">> \o urlencode(GithubQuery(source), order)

\* Bugzilla.get_issues, lines 153-155: the local copy of the filters, with
\* include_fields set.
IncludeFields == <<"id,assigned_to,status,summary,product,component,attachments,keywords">>

BugzillaLocalFilters(source) ==
    (<<"include_fields">> :> PyList(<<IncludeFields>>)) @@ AsLists(source.filters)

\* self.filters after lines 153-155: the copy was changed, not the original.
BugzillaSelfFilters(source) == source.filters

\* A variant that makes the URL from the local copy.
BugzillaQuery_from_copy(source) == BugzillaLocalFilters(source)

\* Bugzilla.get_issues, lines 157-160: the URL is made from self.filters.
BugzillaQuery(source) == AsLists(source.filters)

BugzillaUrl(source, order) ==
    <<BugzillaApiBase>> \o <<"?">> \o urlencode(BugzillaQuery(source), order)

(***************************************************************************)
(* The Link header.                                                        *)
(***************************************************************************)
RelNext == <<"rel=\"next\"">>

\* response.headers.get("Link", ";")
LinkText(link) == IF link.present THEN link.text ELSE <<";">>

\* One entry of the header: its ";"-separated pieces, stripped, reversed.
LinkEntry(l) ==
    LET pieces == Split(Strip(l), ";")
    IN  Reversed([i \in 1..Len(pieces) |-> Strip(pieces[i])])

LinkEntries(link) ==
    LET ls == Split(LinkText(link), ",")
    IN  [i \in 1..Len(ls) |-> LinkEntry(ls[i])]

\* dict(...) accepts the entries only if each has exactly two elements.
LinkDictOk(link) == \A i \in 1..Len(LinkEntries(link)) : Len(LinkEntries(link)[i]) = 2

\* dict(...).get('rel="next"', ""): the last entry with that key wins.
LinkGetNext(link) ==
    LET es == LinkEntries(link)
        hits == {i \in 1..Len(es) : es[i][1] = RelNext}
    IN  IF hits = {} THEN <<>>
        ELSE es[CHOOSE i \in hits : \A j \in hits : j <= i][2]

\* A variant that keeps the angle brackets around the url.
NextUrl_with_brackets(link) ==
    IF ~LinkDictOk(link) THEN [ok |-> FALSE, exc |-> "ValueError"]
    ELSE [ok |-> TRUE, url |-> LinkGetNext(link)]

\* Lines 96-99: the next url ("" when there is none), or a ValueError.
NextUrl(link) ==
    IF ~LinkDictOk(link) THEN [ok |-> FALSE, exc |-> "ValueError"]
    ELSE [ok |-> TRUE, url |-> StripChars(LinkGetNext(link), {"<", ">"})]

(***************************************************************************)
(* get_all: raw issues to standard records.  A JSON object is a record; a  *)
(* key the object lacks is a field the record lacks.  JSON null is Null.   *)
(***************************************************************************)
Null == [t |-> "null"]
JStr(s) == [t |-> "str", s |-> s]

\* Python truth of a JSON value: None and "" are false.
Truthy(v) == IF v.t = "null" THEN FALSE
             ELSE IF v.t = "str" THEN v.s # ""
             ELSE TRUE

\* A variant that looks at the first value of the iterator only.
is_enhancement_first_only(bs, i) ==
    IF i > Len(bs) THEN "n"
    ELSE IF bs[i] THEN "y" ELSE "n"

RECURSIVE is_enhancement_from(_, _)
\* Github.is_enhancement from the i-th value of the iterator on: next()
\* until a true value ("y") or StopIteration ("n").
is_enhancement_from(bs, i) ==
    IF i > Len(bs) THEN "n"
    ELSE IF ~bs[i] THEN is_enhancement_from(bs, i + 1)
    ELSE "y"

is_enhancement(bs) == is_enhancement_from(bs, 1)

\* (i["name"] == "task" for i in issue["labels"])
TaskFlags(labels) == [i \in 1..Len(labels) |-> labels[i].name = "task"]

\* issue["pull_request"]["html_url"]: a KeyError without the key, a
\* TypeError when pull_request is null.
GithubPatch(issue) ==
    IF "pull_request" \notin DOMAIN issue THEN [ok |-> FALSE, exc |-> "KeyError"]
    ELSE IF issue.pull_request.t = "null" THEN [ok |-> FALSE, exc |-> "TypeError"]
    ELSE IF "html_url" \notin DOMAIN issue.pull_request
         THEN [ok |-> FALSE, exc |-> "KeyError"]
    ELSE [ok |-> TRUE, val |-> IF Truthy(issue.pull_request.html_url) THEN "y" ELSE "n"]

\* The dictionary Github.get_all yields for one raw issue.
GithubRecord(source, issue) ==
    IF ~GithubPatch(issue).ok THEN GithubPatch(issue)
    ELSE [ok |-> TRUE,
          val |-> [source |-> "github",
                   id |-> issue.number,
                   url |-> issue.html_url,
                   assigned |-> IF Truthy(issue.assignee) THEN issue.assignee.login
                                ELSE "nobody",
                   status |-> issue.state,
                   title |-> issue.title,
                   product |-> source.repo.s,
                   module |-> source.repo.s,
                   patch |-> GithubPatch(issue).val,
                   feature |-> is_enhancement(TaskFlags(issue.labels))]]

\* A variant without VERIFIED.
CLOSED_STATES_without_verified == {"RESOLVED", "CLOSED"}

CLOSED_STATES == {"RESOLVED", "VERIFIED", "CLOSED"}

BUG_URL_FORMAT == "https://bugzilla.mozilla.org/show_bug.cgi?id={0}"

BugzillaStatus(status) == IF status \in CLOSED_STATES THEN "closed" ELSE "open"

\* The dictionary Bugzilla.get_all yields for one raw bug.
BugzillaRecord(issue) ==
    [ok |-> TRUE,
     val |-> [source |-> "bugzilla",
              id |-> issue.id,
              url |-> <<BUG_URL_FORMAT, issue.id>>,
              assigned |-> issue.assigned_to.name,
              status |-> BugzillaStatus(issue.status),
              title |-> issue.summary,
              product |-> issue.product,
              module |-> issue.component,
              patch |-> IF "attachments" \in DOMAIN issue THEN "y" ELSE "n",
              feature |-> IF \E i \in 1..Len(issue.keywords) : issue.keywords[i] = "feature"
                          THEN "y" ELSE "n"]]

(***************************************************************************)
(* main's csv rows.                                                        *)
(***************************************************************************)
\* writer.writerow(dict(zip(fieldnames, fieldnames)))
HeaderRow ==
    [source |-> "source", id |-> "id", url |-> "url", assigned |-> "assigned",
     status |-> "status", title |-> "title", product |-> "product",
     module |-> "module", patch |-> "patch", feature |-> "feature"]

\* v.encode("utf8") of a text: the only non-ASCII text of the model.
EncodeUtf8(v) == IF v = "na\\u00efve" THEN "na\\xc3\\xafve" ELSE v

\* Lines 235-240: every value with an encode method is encoded; only titles
\* hold non-ASCII text in this model, integers have no encode method.
Row(record) == [record EXCEPT !.title = EncodeUtf8(@)]

(***************************************************************************)
(* The inputs: command lines and server responses.                         *)
(***************************************************************************)
DefGithub ==
    <<"github", ":", "acme", ":", "widgets", ":", "state", "=", "open",
      ":", "state", "=", "closed">>
DefBugzilla ==
    <<"bugzilla", ":", "status", "=", "NEW", ":", "product", "=", "Core",
      ",", "Firefox", ":", "status", "=", "ASSIGNED">>
DefBugzillaFields == <<"bugzilla", ":", "include_fields", "=", "id">>
DefBugzillaBare == <<"bugzilla">>
DefUnknown == <<"jira", ":", "acme">>
DefEmpty == <<>>
DefGithubOne == <<"github", ":", "acme">>
DefGithubThree == <<"github", ":", "acme", ":", "widgets", ":", "extra">>
DefBugzillaPositional == <<"bugzilla", ":", "extra">>
DefGithubRepoKeyword == <<"github", ":", "acme", ":", "repo", "=", "widgets">>
DefGithubUserKeyword ==
    <<"github", ":", "acme", ":", "widgets", ":", "user", "=", "bob">>
DefTwoEquals == <<"bugzilla", ":", "summary", "=", "a", "=", "b">>

Definitions ==
    {DefGithub, DefBugzilla, DefBugzillaFields, DefBugzillaBare,
     DefUnknown, DefEmpty, DefGithubOne, DefGithubThree, DefBugzillaPositional,
     DefGithubRepoKeyword, DefGithubUserKeyword, DefTwoEquals}

\* nargs="+": at least one definition; the model takes one, or two different
\* ones.
ArgLists ==
    {<<d>> : d \in Definitions}
        \cup {p \in Definitions \X Definitions : p[1] # p[2]}

\* A raw github issue as the API sends it.
RawGithubIssue(number, assignee, state, title, labels) ==
    [number |-> number,
     html_url |-> <<"https://github.com/acme/widgets/issues/", number>>,
     assignee |-> assignee, state |-> state, title |-> title, labels |-> labels]

\* The same issue with its pull_request member.
WithPullRequest(issue, pr) == [k \in DOMAIN issue \cup {"pull_request"} |->
                                  IF k = "pull_request" THEN pr ELSE issue[k]]

PullUrl == JStr("https://github.com/acme/widgets/pull/7")

\* The issues of the pipeline: odd numbers are assigned pull requests with a
\* "task" label, even numbers are unassigned plain issues; the issue at
\* position `bad` (if any) has no pull_request member.
PipelineIssue(number, isBad) ==
    LET odd == number % 2 = 1
        issue == RawGithubIssue(number,
                     IF odd THEN [t |-> "obj", login |-> "alice"] ELSE Null,
                     IF odd THEN "open" ELSE "closed",
                     IF odd THEN "na\\u00efve" ELSE "Crash on start",
                     IF odd THEN <<[name |-> "bug"], [name |-> "task"]>> ELSE <<>>)
    IN  IF isBad THEN issue
        ELSE WithPullRequest(issue,
                 [t |-> "obj", html_url |-> IF odd THEN PullUrl ELSE Null])

GithubIssueLists(base) ==
    {[i \in 1..n |-> PipelineIssue(base + i, i = bad)] : n \in 0..MaxIssues, bad \in 0..MaxIssues}

\* The URL of page k, the page number in unary.
PageUrl(k) == <<"https://api.github.com/repositories/1/issues?page=">> \o [i \in 1..k |-> "1"]

NoLink == [present |-> FALSE, text |-> <<>>]
Link(text) == [present |-> TRUE, text |-> text]
LinkNext(k) == <<"<">> \o PageUrl(k + 1) \o <<">", ";", " ", "rel=\"next\"">>
LinkNextLast(k) ==
    LinkNext(k) \o <<",", " ", "<">> \o PageUrl(MaxPages) \o <<">", ";", " ", "rel=\"last\"">>
LinkPrevFirst(k) ==
    <<"<">> \o PageUrl(k - 1) \o <<">", ";", " ", "rel=\"prev\"", ",", " ", "<">>
        \o PageUrl(1) \o <<">", ";", " ", "rel=\"first\"">>
LinkNoSemicolon(k) == <<"<">> \o PageUrl(k + 1) \o <<">">>
LinkTwoParams(k) == LinkNext(k) \o <<";", " ", "title=\"next page\"">>
LinkEmpty == <<>>

\* The headers that name a next page, those that name none, and the
\* malformed ones.
LinksWithNext(k) == {Link(LinkNext(k)), Link(LinkNextLast(k))}
LinksWithoutNext(k) == {NoLink, Link(LinkPrevFirst(k))}
LinksMalformed(k) == {Link(LinkNoSemicolon(k)), Link(LinkTwoParams(k)), Link(LinkEmpty)}

\* The server's answers to the k-th request of a github source that has
\* been sent `base` issues; the last page names no next page.
GithubResponses(k, base) ==
    [issues : GithubIssueLists(base),
     link : LinksWithoutNext(k) \cup LinksMalformed(k)
            \cup (IF k < MaxPages THEN LinksWithNext(k) ELSE {})]

\* A raw bug as the API sends it.
RawBug(id, status, keywords) ==
    [id |-> id, assigned_to |-> [name |-> "bob"], status |-> status,
     summary |-> "Crash on start", product |-> "Core", component |-> "General",
     keywords |-> keywords]

WithAttachments(bug, att) == [k \in DOMAIN bug \cup {"attachments"} |->
                                 IF k = "attachments" THEN att ELSE bug[k]]

PipelineBug(id) ==
    IF id % 2 = 1 THEN WithAttachments(RawBug(id, "RESOLVED", <<"feature">>), <<>>)
    ELSE RawBug(id, "NEW", <<>>)

BugzillaResponses == {[i \in 1..n |-> PipelineBug(i)] : n \in 0..MaxIssues}

(***************************************************************************)
(* main: the pipeline.                                                     *)
(***************************************************************************)
NewGenerator ==
    [pc |-> "start", filters |-> <<>>, url |-> <<>>, buf |-> <<>>, link |-> NoLink]
NoRaw == [cls |-> "none"]
NotYet == [ok |-> FALSE, exc |-> "none"]

Fail(kind, at, arg) == [kind |-> kind, at |-> at, arg |-> arg]
NoFailure == Fail("none", "none", 0)

Event(e, src, n) == [e |-> e, src |-> src, n |-> n]

Init ==
    /\ argv \in ArgLists
    /\ sources = <<>>
    /\ pc = "parse"
    /\ err = NoFailure
    /\ cur = 0
    /\ gen = NewGenerator
    /\ output = <<>>
    /\ requests = <<>>
    /\ served = [i \in 1..Len(argv) |-> <<>>]
    /\ yielded = [i \in 1..Len(argv) |-> <<>>]
    /\ events = <<>>
    /\ raw = NoRaw
    /\ rec = NotYet

\* An uncaught exception ends the run.
Abort(kind, at, arg) == pc' = "error" /\ err' = Fail(kind, at, arg)

\* Line 215: sources = [parse_source(sd) for sd in args.sources]; the first
\* definition that raises ends the run.
ParseSources ==
    /\ pc = "parse"
    /\ LET results == [i \in 1..Len(argv) |-> parse_source(argv[i])]
           failed == {i \in 1..Len(argv) : ~results[i].ok}
           first == CHOOSE i \in failed : \A j \in failed : i <= j
       IN  IF failed # {}
           THEN Abort(results[first].exc, "parse_source", first) /\ UNCHANGED sources
           ELSE /\ sources' = [i \in 1..Len(argv) |-> results[i].val]
                /\ pc' = "header"
                /\ UNCHANGED err
    /\ UNCHANGED <<argv, cur, gen, output, requests, served, yielded, events, raw, rec>>

\* Lines 231-234: the header row is written, then chain(...) is built from
\* the sources' get_all() generators (none of them has run yet).
WriteHeader ==
    /\ pc = "header"
    /\ output' = <<HeaderRow>>
    /\ events' = <<Event("header", 0, 0)>>
    /\ pc' = "chain"
    /\ cur' = 1
    /\ gen' = NewGenerator
    /\ UNCHANGED <<argv, sources, err, requests, served, yielded, raw, rec>>

\* A variant in which the loop of main ends with the first generator.
NextSource_first_only ==
    /\ cur' = cur + 1
    /\ gen' = NewGenerator
    /\ pc' = "done"

\* The generator of the current source is exhausted: chain goes on to the
\* next one, and the loop of main ends after the last.
NextSource ==
    /\ cur' = cur + 1
    /\ gen' = NewGenerator
    /\ pc' = IF cur = Len(sources) THEN "done" ELSE "chain"

\* Github.get_issues, lines 77-86, run at the first next(): the url.
GithubStart ==
    /\ pc = "chain" /\ sources[cur].cls = "github" /\ gen.pc = "start"
    /\ IF GithubPathOk(sources[cur])
       THEN /\ \E order \in KeyOrders(DOMAIN GithubQuery(sources[cur])) :
                  gen' = [gen EXCEPT !.pc = "fetch",
                                     !.filters = GithubQuery(sources[cur]),
                                     !.url = GithubUrl(sources[cur], order)]
            /\ UNCHANGED <<pc, err>>
       ELSE Abort("TypeError", "Github.get_issues", cur) /\ UNCHANGED gen
    /\ sources' = [sources EXCEPT ![cur].filters = GithubSelfFilters(sources[cur])]
    /\ UNCHANGED <<argv, cur, output, requests, served, yielded, events, raw, rec>>

\* Lines 88-91: while url: urlopen(url), json.loads(response.read()).
GithubFetch ==
    /\ pc = "chain" /\ sources[cur].cls = "github" /\ gen.pc = "fetch"
    /\ gen.url # <<>>
    /\ \E resp \in GithubResponses(Cardinality({i \in 1..Len(requests) : requests[i].src = cur}) + 1,
                                   Len(served[cur])) :
          /\ requests' = Append(requests, [src |-> cur, url |-> gen.url])
          /\ events' = Append(events, Event("request", cur, Len(resp.issues)))
          /\ served' = [served EXCEPT ![cur] = @ \o resp.issues]
          /\ gen' = [gen EXCEPT !.pc = "yield", !.buf = resp.issues, !.link = resp.link]
    /\ UNCHANGED <<argv, sources, pc, err, cur, output, yielded, raw, rec>>

\* urlopen raises (URLError), or the body is not JSON (ValueError).
FetchFails ==
    /\ pc = "chain"
    /\ \/ sources[cur].cls = "github" /\ gen.pc = "fetch" /\ gen.url # <<>>
       \/ sources[cur].cls = "bugzilla" /\ gen.pc = "fetch"
    /\ requests' = Append(requests, [src |-> cur, url |-> gen.url])
    /\ events' = Append(events, Event("request", cur, 0))
    /\ \E kind \in {"URLError", "ValueError"} : Abort(kind, "urlopen", cur)
    /\ UNCHANGED <<argv, sources, cur, gen, output, served, yielded, raw, rec>>

\* Lines 91-92, 59-71 and 234-240: get_issues yields the next issue of the
\* page, get_all makes its record, main writes the row.
GithubYieldRow ==
    /\ pc = "chain" /\ sources[cur].cls = "github" /\ gen.pc = "yield"
    /\ gen.buf # <<>>
    /\ LET issue == Head(gen.buf)
           record == GithubRecord(sources[cur], issue)
       IN  /\ yielded' = [yielded EXCEPT ![cur] = Append(@, issue)]
           /\ gen' = [gen EXCEPT !.buf = Tail(@)]
           /\ IF record.ok
              THEN /\ output' = Append(output, Row(record.val))
                   /\ events' = Append(events, Event("row", cur, issue.number))
                   /\ UNCHANGED <<pc, err>>
              ELSE /\ Abort(record.exc, "Github.get_all", cur)
                   /\ UNCHANGED <<output, events>>
    /\ UNCHANGED <<argv, sources, cur, requests, served, raw, rec>>

\* A variant that follows the Link header before the page is exhausted.
GithubNextPage_eager ==
    /\ pc = "chain" /\ sources[cur].cls = "github" /\ gen.pc = "yield"
    /\ LET next == NextUrl(gen.link)
       IN  IF ~next.ok
           THEN Abort(next.exc, "Github.get_issues.link", cur) /\ UNCHANGED <<cur, gen>>
           ELSE IF next.url # <<>>
           THEN /\ gen' = [gen EXCEPT !.pc = "fetch", !.url = next.url, !.link = NoLink]
                /\ UNCHANGED <<pc, err, cur>>
           ELSE NextSource /\ UNCHANGED err
    /\ UNCHANGED <<argv, sources, output, requests, served, yielded, events, raw, rec>>

\* Lines 96-99 and 88: the page is exhausted; the next url is taken from
\* the Link header and the loop goes on while it is not empty.
GithubNextPage ==
    /\ pc = "chain" /\ sources[cur].cls = "github" /\ gen.pc = "yield"
    /\ gen.buf = <<>>
    /\ LET next == NextUrl(gen.link)
       IN  IF ~next.ok
           THEN Abort(next.exc, "Github.get_issues.link", cur) /\ UNCHANGED <<cur, gen>>
           ELSE IF next.url # <<>>
           THEN /\ gen' = [gen EXCEPT !.pc = "fetch", !.url = next.url, !.link = NoLink]
                /\ UNCHANGED <<pc, err, cur>>
           ELSE NextSource /\ UNCHANGED err
    /\ UNCHANGED <<argv, sources, output, requests, served, yielded, events, raw, rec>>

\* Bugzilla.get_issues, lines 153-162, run at the first next(): the local
\* filters and the url.
BugzillaStart ==
    /\ pc = "chain" /\ sources[cur].cls = "bugzilla" /\ gen.pc = "start"
    /\ \E order \in KeyOrders(DOMAIN BugzillaQuery(sources[cur])) :
          gen' = [gen EXCEPT !.pc = "fetch",
                             !.filters = BugzillaLocalFilters(sources[cur]),
                             !.url = BugzillaUrl(sources[cur], order)]
    /\ sources' = [sources EXCEPT ![cur].filters = BugzillaSelfFilters(sources[cur])]
    /\ UNCHANGED <<argv, pc, err, cur, output, requests, served, yielded, events, raw, rec>>

\* Line 164: json.loads(urlopen(url).read())["bugs"], one request.
BugzillaFetch ==
    /\ pc = "chain" /\ sources[cur].cls = "bugzilla" /\ gen.pc = "fetch"
    /\ \E bugs \in BugzillaResponses :
          /\ requests' = Append(requests, [src |-> cur, url |-> gen.url])
          /\ events' = Append(events, Event("request", cur, Len(bugs)))
          /\ served' = [served EXCEPT ![cur] = @ \o bugs]
          /\ gen' = [gen EXCEPT !.pc = "yield", !.buf = bugs]
    /\ UNCHANGED <<argv, sources, pc, err, cur, output, yielded, raw, rec>>

\* Lines 164-165, 136-148 and 234-240: get_issues yields the next bug,
\* get_all makes its record, main writes the row.
BugzillaYieldRow ==
    /\ pc = "chain" /\ sources[cur].cls = "bugzilla" /\ gen.pc = "yield"
    /\ gen.buf # <<>>
    /\ LET issue == Head(gen.buf)
           record == BugzillaRecord(issue)
       IN  /\ yielded' = [yielded EXCEPT ![cur] = Append(@, issue)]
           /\ gen' = [gen EXCEPT !.buf = Tail(@)]
           /\ output' = Append(output, Row(record.val))
           /\ events' = Append(events, Event("row", cur, issue.id))
    /\ UNCHANGED <<argv, sources, pc, err, cur, requests, served, raw, rec>>

\* The bugs are exhausted: the generator ends.
BugzillaEnd ==
    /\ pc = "chain" /\ sources[cur].cls = "bugzilla" /\ gen.pc = "yield"
    /\ gen.buf = <<>>
    /\ NextSource
    /\ UNCHANGED <<argv, sources, err, output, requests, served, yielded, events, raw, rec>>

Next ==
    \/ ParseSources
    \/ WriteHeader
    \/ GithubStart
    \/ GithubFetch
    \/ FetchFails
    \/ GithubYieldRow
    \/ GithubNextPage
    \/ BugzillaStart
    \/ BugzillaFetch
    \/ BugzillaYieldRow
    \/ BugzillaEnd

Spec == Init /\ [][Next]_vars

(***************************************************************************)
(* get_all's record expressions on their own, over a wider set of raw      *)
(* issues and bugs than the pipeline's server sends.                       *)
(***************************************************************************)
LabelNames == {"task", "bug"}

LabelLists ==
    UNION {[1..n -> {[name |-> l] : l \in LabelNames}] : n \in 0..MaxLabels}

\* What a raw issue may hold as pull_request; Absent stands for no key.
Absent == [t |-> "absent"]
PullRequests ==
    {Absent, Null, [t |-> "obj"], [t |-> "obj", html_url |-> Null],
     [t |-> "obj", html_url |-> JStr("")], [t |-> "obj", html_url |-> PullUrl]}

RawGithubIssues ==
    {IF pr = Absent THEN RawGithubIssue(7, assignee, state, "Crash on start", labels)
     ELSE WithPullRequest(RawGithubIssue(7, assignee, state, "Crash on start", labels), pr) :
        assignee \in {Null, [t |-> "obj", login |-> "alice"]},
        state \in {"open", "closed"},
        pr \in PullRequests,
        labels \in LabelLists}

BugStatuses ==
    {"UNCONFIRMED", "NEW", "ASSIGNED", "REOPENED", "RESOLVED", "VERIFIED", "CLOSED",
     "resolved"}

RawBugs ==
    {RawBug(7, status, keywords) :
        status \in BugStatuses,
        keywords \in {<<>>, <<"feature">>, <<"regression">>, <<"regression", "feature">>}}
    \cup
    {WithAttachments(RawBug(7, status, keywords), att) :
        status \in BugStatuses,
        keywords \in {<<>>, <<"feature">>, <<"regression">>, <<"regression", "feature">>},
        att \in {<<>>, <<"patch.diff">>}}

RawInputs ==
    {[cls |-> "github", issue |-> i] : i \in RawGithubIssues}
        \cup {[cls |-> "bugzilla", issue |-> b] : b \in RawBugs}

\* The Github source whose get_all is applied.
NormSource == parse_source(DefGithub).val

InitNorm ==
    /\ raw \in RawInputs
    /\ rec = NotYet
    /\ argv = <<>>
    /\ sources = <<>>
    /\ pc = "get_all"
    /\ err = NoFailure
    /\ cur = 0
    /\ gen = NewGenerator
    /\ output = <<>>
    /\ requests = <<>>
    /\ served = <<>>
    /\ yielded = <<>>
    /\ events = <<>>

\* Lines 60-71 for one raw issue.
NormalizeGithub ==
    /\ pc = "get_all" /\ raw.cls = "github" /\ rec = NotYet
    /\ rec' = GithubRecord(NormSource, raw.issue)
    /\ UNCHANGED <<argv, sources, pc, err, cur, gen, output, requests, served,
                   yielded, events, raw>>

\* Lines 137-148 for one raw bug.
NormalizeBugzilla ==
    /\ pc = "get_all" /\ raw.cls = "bugzilla" /\ rec = NotYet
    /\ rec' = BugzillaRecord(raw.issue)
    /\ UNCHANGED <<argv, sources, pc, err, cur, gen, output, requests, served,
                   yielded, events, raw>>

NextNorm == NormalizeGithub \/ NormalizeBugzilla

SpecNorm == InitNorm /\ [][NextNorm]_vars

(***************************************************************************)
(* Properties of get_all's records (specification SpecNorm).               *)
(***************************************************************************)
Normalized(cls) == raw.cls = cls /\ rec # NotYet

\* C6: Bugzilla.get_all gives a record status "closed" exactly when the raw
\* bug's status is RESOLVED, VERIFIED or CLOSED, and "open" for every other
\* status; no other status value is emitted.
C6_ClosedStateMapping ==
    Normalized("bugzilla") =>
        /\ rec.ok
        /\ rec.val.status \in {"open", "closed"}
        /\ rec.val.status = "closed" <=>
               \/ raw.issue.status = "RESOLVED"
               \/ raw.issue.status = "VERIFIED"
               \/ raw.issue.status = "CLOSED"

\* A VERIFIED bug has been normalized.
C6_Witness == Normalized("bugzilla") /\ raw.issue.status = "VERIFIED"

\* The issue carries pull-request linkage with a non-empty web URL.
HasPullRequestUrl(issue) ==
    /\ "pull_request" \in DOMAIN issue
    /\ issue.pull_request.t = "obj"
    /\ "html_url" \in DOMAIN issue.pull_request
    /\ issue.pull_request.html_url.t = "str"
    /\ issue.pull_request.html_url.s # ""

\* C9: Github.get_all emits, for every raw issue, a record whose patch is
\* "y" when the issue carries pull-request linkage with a non-empty web URL
\* and "n" in every other case, also without any linkage; never an error.
C9_PatchForEveryIssue ==
    Normalized("github") =>
        /\ rec.ok
        /\ rec.val.patch = IF HasPullRequestUrl(raw.issue) THEN "y" ELSE "n"

\* C10: feature is "y" exactly when some label of the issue is named "task",
\* at any position, and "n" otherwise, also for an empty label list.
C10_FeatureIffTaskLabel ==
    (Normalized("github") /\ rec.ok) =>
        /\ rec.val.feature \in {"y", "n"}
        /\ rec.val.feature = "y" <=>
               \E i \in 1..Len(raw.issue.labels) : raw.issue.labels[i].name = "task"

\* An issue whose only "task" label is its last, behind two others.
C10_Witness ==
    /\ Normalized("github") /\ rec.ok
    /\ Len(raw.issue.labels) = 3
    /\ raw.issue.labels[3].name = "task"
    /\ raw.issue.labels[1].name # "task" /\ raw.issue.labels[2].name # "task"

(***************************************************************************)
(* Properties of the pipeline (specification Spec).                        *)
(***************************************************************************)
\* What a source definition says, read off its tokens.
Segments(d) == Split(d, ":")
HasEquals(seg) == \E i \in 1..Len(seg) : seg[i] = "="
FirstEquals(seg) == CHOOSE i \in 1..Len(seg) : seg[i] = "=" /\ \A j \in 1..(i-1) : seg[j] # "="
KeyOf(seg) == SubSeq(seg, 1, FirstEquals(seg) - 1)
ValueOf(seg) == SubSeq(seg, FirstEquals(seg) + 1, Len(seg))
Positionals(d) == SelectSeq(Tail(Segments(d)), LAMBDA seg : ~HasEquals(seg))
Assignments(d) == SelectSeq(Tail(Segments(d)), HasEquals)
KeysOf(d) == {KeyOf(Assignments(d)[i]) : i \in 1..Len(Assignments(d))}
ValuesOf(d, key) ==
    LET mine == SelectSeq(Assignments(d), LAMBDA seg : KeyOf(seg) = key)
    IN  [i \in 1..Len(mine) |-> ValueOf(mine[i])]
Registered(d) == Head(Segments(d)) = <<"github">> \/ Head(Segments(d)) = <<"bugzilla">>
CountFits(d) ==
    Len(Positionals(d)) = IF Head(Segments(d)) = <<"github">> THEN 2 ELSE 0

\* The instance has the definition's positionals and filters.
MatchesTokens(d, source) ==
    /\ <<source.cls>> = Head(Segments(d))
    /\ source.cls = "github" =>
           /\ source.user = PyStr(Positionals(d)[1])
           /\ source.repo = PyStr(Positionals(d)[2])
    /\ DOMAIN source.filters = KeysOf(d)
    /\ \A key \in KeysOf(d) : source.filters[key] = ValuesOf(d, key)

ParseFailedAt(i) == pc = "error" /\ err.at = "parse_source" /\ err.arg = i

\* C4: parse_source, for every definition whose first segment is a
\* registered type and whose positional count fits that type, returns an
\* instance whose positionals are the segments without "=" in order and
\* whose filters hold, per key, the values of its "key=value" segments in
\* the order written.
C4_ParseMatchesTokens ==
    \A i \in 1..Len(argv) :
        (Registered(argv[i]) /\ CountFits(argv[i])) =>
            /\ ~ParseFailedAt(i)
            /\ sources # <<>> => MatchesTokens(argv[i], sources[i])

\* C5: if any definition of the argument list has an unregistered type or a
\* positional count that does not fit its type, the run fails before the
\* header row is written and before any request is issued.
C5_BadDefinitionFailsFirst ==
    (\E i \in 1..Len(argv) : ~Registered(argv[i]) \/ ~CountFits(argv[i])) =>
        /\ output = <<>>
        /\ requests = <<>>
        /\ pc # "done"

\* The requests of source k, in order.
RequestsOf(k) == SelectSeq(requests, LAMBDA r : r.src = k)

\* The issues of the current page that get_issues has not yielded yet.
Pending(k) == IF k = cur THEN gen.buf ELSE <<>>

IsGithub(k) == sources[k].cls = "github"
IsBugzilla(k) == sources[k].cls = "bugzilla"

\* Every issue sent so far has been yielded once, in page order and in
\* within-page order, but for the rest of the current page; the request
\* for page j goes to the url the Link header of page j-1 named, and there
\* are no more requests than the chain has pages.
C1_Yielded ==
    \A k \in 1..Len(sources) :
        IsGithub(k) =>
            /\ yielded[k] \o Pending(k) = served[k]
            /\ Len(RequestsOf(k)) <= MaxPages
            /\ \A j \in 2..Len(RequestsOf(k)) : RequestsOf(k)[j].url = PageUrl(j)

\* get_issues stands at the end of a page whose Link header is well formed.
AtPageEnd ==
    /\ pc = "chain" /\ IsGithub(cur) /\ gen.pc = "yield" /\ gen.buf = <<>>
    /\ gen.link \notin LinksMalformed(Len(RequestsOf(cur)))

\* From there, a header that names a next page leads to the request of that
\* page, and one that names none ends the generator.
C1_Step ==
    AtPageEnd =>
        IF gen.link \in LinksWithNext(Len(RequestsOf(cur)))
        THEN /\ pc' = "chain" /\ cur' = cur
             /\ gen'.pc = "fetch" /\ gen'.url = PageUrl(Len(RequestsOf(cur)) + 1)
        ELSE cur' = cur + 1 /\ pc' \in {"chain", "done"}

\* C1: given a finite chain of responses linked by rel="next", get_issues
\* yields every issue of every page exactly once, in page order and in
\* within-page order, issues one request per page, and then terminates.
C1_PagesInOrderThenStop == [](C1_Yielded) /\ [][C1_Step]_vars

\* A github source was drained over two pages holding three issues or more.
C1_Witness ==
    /\ pc = "done"
    /\ \E k \in 1..Len(sources) :
          IsGithub(k) /\ Len(RequestsOf(k)) = 2 /\ Len(yielded[k]) >= 3

\* C3: a Link header that is absent or malformed is treated as "no next
\* page": the loop ends normally and no error is raised.
C3_BadLinkIsNoNextPage == ~(pc = "error" /\ err.at = "Github.get_issues.link")

RECURSIVE ServedUpTo(_)
\* The number of raw issues the sources 1..k have been sent.
ServedUpTo(k) == IF k = 0 THEN 0 ELSE ServedUpTo(k - 1) + Len(served[k])

\* The identifier of a raw issue of source k.
RawId(k, issue) == IF IsGithub(k) THEN issue.number ELSE issue.id

\* The rows of source k stand together, behind those of the sources before
\* it, one per issue sent so far and in that order.
RowsOfSource(k) ==
    \A i \in 1..Len(served[k]) :
        1 + ServedUpTo(k - 1) + i <= Len(output) =>
            /\ output[1 + ServedUpTo(k - 1) + i].source = sources[k].cls
            /\ output[1 + ServedUpTo(k - 1) + i].id = RawId(k, served[k][i])

\* C2: main writes the header row first and exactly once, then exactly one
\* row per record; when all sources parsed and were fetched, the number of
\* data rows is the sum of the record counts of all sources, and the rows
\* of a source precede those of every later source.
C2_HeaderThenRowsBySource ==
    /\ output # <<>> =>
           /\ output[1].source = "source" /\ output[1] = HeaderRow
           /\ \A p \in 2..Len(output) : output[p].source # "source"
    /\ \A k \in 1..Len(sources) : RowsOfSource(k)
    /\ pc = "done" =>
           /\ Len(output) = 1 + ServedUpTo(Len(sources))
           /\ \A k \in 1..Len(sources) : RequestsOf(k) # <<>>

\* Two sources were drained, each giving two rows.
C2_Witness ==
    /\ pc = "done" /\ Len(sources) = 2
    /\ Len(served[1]) >= 2 /\ Len(served[2]) >= 2

\* The query string of a request url, as its "key=value" pieces.
QueryPairs(url) ==
    LET query == SubSeq(url, 3, Len(url))
        pieces == IF query = <<>> THEN <<>> ELSE Split(query, "&")
    IN  [i \in 1..Len(pieces) |-> Split(pieces[i], "=")]

\* The values the request gives for `key`, in the order of the query string.
RequestValues(url, key) ==
    LET mine == SelectSeq(QueryPairs(url), LAMBDA kv : kv[1] = quote_plus(key))
    IN  [i \in 1..Len(mine) |-> mine[i][2]]

\* C7: Bugzilla.get_issues issues exactly one request whose query string is
\* built from the source's original filters only: each key once per value,
\* the values of a key in the order given, the computed include_fields
\* never part of it; the source's own filters are left unchanged.
C7_BugzillaRequestFromOwnFilters ==
    \A k \in 1..Len(sources) :
        IsBugzilla(k) =>
            LET mine == RequestsOf(k)
                keys == KeysOf(argv[k])
            IN  /\ Len(mine) <= 1
                /\ k < cur => Len(mine) = 1
                /\ DOMAIN sources[k].filters = keys
                /\ \A key \in keys : sources[k].filters[key] = ValuesOf(argv[k], key)
                /\ \A j \in 1..Len(mine) :
                      LET url == mine[j].url
                          pairs == QueryPairs(url)
                      IN  /\ url[1] = BugzillaApiBase /\ url[2] = "?"
                          /\ \A q \in 1..Len(pairs) :
                                /\ Len(pairs[q]) = 2
                                /\ \E key \in keys : pairs[q][1] = quote_plus(key)
                          /\ \A key \in keys :
                                LET given == ValuesOf(argv[k], key)
                                IN  RequestValues(url, key)
                                        = [i \in 1..Len(given) |-> quote_plus(given[i])]

\* The request of the source with two status values and a product was made.
C7_Witness ==
    \E k \in 1..Len(sources) :
        /\ IsBugzilla(k) /\ argv[k] = DefBugzilla
        /\ Len(RequestsOf(k)) = 1 /\ k < cur

RECURSIVE IssuesFetched(_, _)
\* The number of issues in the responses to source k among the first j events.
IssuesFetched(j, k) ==
    IF j = 0 THEN 0
    ELSE IssuesFetched(j - 1, k)
            + IF events[j].e = "request" /\ events[j].src = k THEN events[j].n ELSE 0

\* The number of rows of source k among the first j events.
RowsWritten(j, k) ==
    Cardinality({i \in 1..j : events[i].e = "row" /\ events[i].src = k})

\* C8: the header row is written before the first request; when a request
\* is issued, a row has been written for every issue of the earlier pages
\* of its source; and no request for a source is issued before the last
\* row of the sources before it has been written.
C8_FetchAndWriteInterleaved ==
    \A j \in 1..Len(events) :
        events[j].e = "request" =>
            /\ events[1].e = "header" /\ output # <<>>
            /\ RowsWritten(j, events[j].src) = IssuesFetched(j - 1, events[j].src)
            /\ \A k \in 1..(events[j].src - 1) :
                  /\ RowsWritten(j, k) = IssuesFetched(Len(events), k)
                  /\ RowsWritten(j, k) = RowsWritten(Len(events), k)

\* A second page was requested after two rows, and a second source after
\* the rows of the first.
C8_Witness ==
    /\ \E j \in 1..Len(events) :
          events[j].e = "request" /\ events[j].src = 1 /\ RowsWritten(j, 1) = 2
    /\ \E j \in 1..Len(events) :
          events[j].e = "request" /\ events[j].src = 2 /\ RowsWritten(j, 1) >= 1

=============================================================================
